---- MODULE Spec2Model ----
(***************************************************************************)
(* Model of library/ec2_elasticsearch.py: main() builds the desired        *)
(* configuration of an Elasticsearch domain from the module parameters,    *)
(* reads the domain, compares, and creates or updates it.                  *)
(*                                                                         *)
(* Python dicts are functions with a domain of strings; a key that is not  *)
(* in the dict is a key that is not in the DOMAIN, and subscripting it is  *)
(* a KeyError.  A parameter the playbook leaves out (None) is a key that   *)
(* is not in the DOMAIN of params.  A list parameter that is None and one  *)
(* that is [] are both the empty sequence: lines 323 and 329 test only     *)
(* truthiness.  A formatted string is the tuple of its parts.              *)
(***************************************************************************)
EXTENDS Integers, Sequences, FiniteSets, TLC

VARIABLES params, exists, status, inv, prev, pc, changed, policy_dict, pdoc,
          keyword_args, response, calls, result

vars == <<params, exists, status, inv, prev, pc, changed, policy_dict, pdoc,
          keyword_args, response, calls, result>>

\* ---------------------------------------------------------------- bounds
MaxInvocations == 2
MaxInstanceCount == 3
MaxStatements == 1

\* ------------------------------------------------------------ dict helpers
EmptyDict == [k \in {} |-> TRUE]

HasKey(d, k) == k \in DOMAIN d

\* d1 with the keys of d2 set (dict item assignment / dict.update)
SetKeys(d1, d2) ==
    [k \in DOMAIN d1 \cup DOMAIN d2 |-> IF k \in DOMAIN d2 THEN d2[k] ELSE d1[k]]

\* ---------------------------------------------------------- desired state
cluster_config(p) ==
    LET base == [InstanceType |-> p.instance_type,
                 InstanceCount |-> p.instance_count,
                 DedicatedMasterEnabled |-> p.dedicated_master,
                 ZoneAwarenessEnabled |-> p.zone_awareness,
                 WarmEnabled |-> p.warm_enabled,
                 ColdStorageOptions |-> [Enabled |-> p.cold_storage_enabled]]
        zone == IF p.zone_awareness
                THEN [ZoneAwarenessConfig |->
                         [AvailabilityZoneCount |-> p.availability_zone_count]]
                ELSE EmptyDict
        warm == IF p.warm_enabled
                THEN [WarmType |-> p.warm_type, WarmCount |-> p.warm_count]
                ELSE EmptyDict
        master == IF p.dedicated_master
                  THEN [DedicatedMasterType |-> p.dedicated_master_instance_type,
                        DedicatedMasterCount |-> p.dedicated_master_instance_count]
                  ELSE EmptyDict
    IN  SetKeys(SetKeys(SetKeys(base, zone), warm), master)

ebs_options(p) ==
    LET base == [EBSEnabled |-> p.ebs]
        vol == IF p.ebs
               THEN [VolumeType |-> p.volume_type, VolumeSize |-> p.volume_size]
               ELSE EmptyDict
        iops == IF HasKey(p, "iops") THEN [Iops |-> p.iops] ELSE EmptyDict
    IN  SetKeys(SetKeys(base, vol), iops)

encryption_at_rest_options(p) ==
    IF p.encryption_at_rest_enabled
    THEN [Enabled |-> TRUE, KmsKeyId |-> p.encryption_at_rest_kms_key_id]
    ELSE [Enabled |-> FALSE]

cognito_options(p) ==
    IF p.cognito_enabled
    THEN [Enabled |-> TRUE,
          UserPoolId |-> p.cognito_user_pool_id,
          IdentityPoolId |-> p.cognito_identity_pool_id,
          RoleArn |-> p.cognito_role_arn]
    ELSE [Enabled |-> FALSE]

vpc_options(p) ==
    LET subnets == IF p.vpc_subnets # <<>>
                   THEN [SubnetIds |-> p.vpc_subnets] ELSE EmptyDict
        groups == IF p.vpc_security_groups # <<>>
                  THEN [SecurityGroupIds |-> p.vpc_security_groups] ELSE EmptyDict
    IN  SetKeys(subnets, groups)

snapshot_options(p) == [AutomatedSnapshotStartHour |-> p.snapshot_hour]

engine_version(p) == <<p.engine_type, "_", p.elasticsearch_version>>

\* ------------------------------------------------------- access policy
\* '%s/*' % status['ARN']
ResourceOf(arn) == <<arn, "/*">>

\* PopulateResource without lines 362-366: the policy as the playbook gave it.
PopulateResourceSkipped(policy, arn) == policy

\* Lines 361-366: every statement without a Resource gets '<ARN>/*'.
PopulateResource(policy, arn) ==
    [policy EXCEPT !.Statement =
        [i \in DOMAIN @ |->
            IF HasKey(@[i], "Resource")
            THEN @[i]
            ELSE SetKeys(@[i], [Resource |-> ResourceOf(arn)])]]

\* A JSON object as text: its members in the order they are written.
DumpsObject(d, order) ==
    LET keys == SelectSeq(order, LAMBDA k : k \in DOMAIN d)
    IN  [i \in 1..Len(keys) |-> <<keys[i], d[keys[i]]>>]

LoadsObject(members) ==
    [k \in {members[i][1] : i \in DOMAIN members} |->
        members[CHOOSE i \in DOMAIN members : members[i][1] = k][2]]

\* json.dumps writes the keys in the order the playbook gave them, with a
\* Resource added by line 365 last.
PlaybookKeyOrder == <<"Effect", "Action", "Resource">>

json_dumps(policy) ==
    <<<<"Version", policy.Version>>,
      <<"Statement", [i \in DOMAIN policy.Statement |->
                         DumpsObject(policy.Statement[i], PlaybookKeyOrder)]>>>>

json_loads(text) ==
    [Version |-> text[1][2],
     Statement |-> [i \in DOMAIN text[2][2] |-> LoadsObject(text[2][2][i])]]

\* PolicyDiffers on the JSON texts instead of the parsed documents.
PolicyDiffersAsText(st, policy) == st.AccessPolicies # json_dumps(policy)

\* Line 387: dict inequality of the parsed current policy and the desired one.
PolicyDiffers(st, policy) == json_loads(st.AccessPolicies) # policy

\* ------------------------------------------------------------- provider
ArnOf(name) == <<"arn:aws:es:domain/", name>>

NoError == [Code |-> "none", Message |-> ""]
NotFound == [Code |-> "ResourceNotFoundException", Message |-> "Domain not found"]
OtherErrors == {[Code |-> "ValidationException", Message |-> "Invalid request"]}

ProviderKeyOrder == <<"Resource", "Action", "Effect">>

\* The service stores the policy with the Resource it sets implicitly
\* (comment at line 364) and returns it as its own JSON text.
ProviderPolicy(text, arn) ==
    LET policy == json_loads(text)
        filled == [i \in DOMAIN policy.Statement |->
                     IF "Resource" \in DOMAIN policy.Statement[i]
                     THEN policy.Statement[i]
                     ELSE SetKeys(policy.Statement[i], [Resource |-> <<arn, "/*">>])]
    IN  <<<<"Version", policy.Version>>,
          <<"Statement", [i \in DOMAIN filled |->
                             DumpsObject(filled[i], ProviderKeyOrder)]>>>>

DefaultSecurityGroups == <<"sg-default">>

ProviderVpc(kw) ==
    IF HasKey(kw, "VPCOptions")
    THEN [VPCOptions |->
            [SubnetIds |-> kw.VPCOptions.SubnetIds,
             SecurityGroupIds |-> IF HasKey(kw.VPCOptions, "SecurityGroupIds")
                                  THEN kw.VPCOptions.SecurityGroupIds
                                  ELSE DefaultSecurityGroups]]
    ELSE EmptyDict

\* DomainStatus after create_elasticsearch_domain(**kw); the keys are the
\* ones main() reads at lines 365-386.
CreatedStatus(kw) ==
    SetKeys([ARN |-> ArnOf(kw.DomainName),
             DomainName |-> kw.DomainName,
             ElasticsearchVersion |-> kw.EngineVersion,
             EncryptionAtRestOptions |-> kw.EncryptionAtRestOptions,
             ElasticsearchClusterConfig |-> kw.ElasticsearchClusterConfig,
             EBSOptions |-> kw.EBSOptions,
             SnapshotOptions |-> kw.SnapshotOptions,
             AccessPolicies |-> ProviderPolicy(kw.AccessPolicies, ArnOf(kw.DomainName)),
             CognitoOptions |-> kw.CognitoOptions],
            ProviderVpc(kw))

\* DomainStatus after update_elasticsearch_domain_config(**kw).
UpdatedStatus(st, kw) ==
    SetKeys(SetKeys(st,
                    [ElasticsearchClusterConfig |-> kw.ElasticsearchClusterConfig,
                     EBSOptions |-> kw.EBSOptions,
                     SnapshotOptions |-> kw.SnapshotOptions,
                     AccessPolicies |-> ProviderPolicy(kw.AccessPolicies, st.ARN),
                     CognitoOptions |-> kw.CognitoOptions]),
            ProviderVpc(kw))

\* ------------------------------------------------------- keyword arguments
\* Lines 400 and 421: vpc_options['SubnetIds'] or vpc_options['SecurityGroupIds'].
\* The subscript of a key that line 326 or 332 did not set raises KeyError.
VpcTestRaises(vpc) ==
    \/ ~HasKey(vpc, "SubnetIds")
    \/ (vpc.SubnetIds = <<>> /\ ~HasKey(vpc, "SecurityGroupIds"))

VpcTest(vpc) == vpc.SubnetIds # <<>> \/ vpc.SecurityGroupIds # <<>>

VpcArgs(p) ==
    IF VpcTest(vpc_options(p)) THEN [VPCOptions |-> vpc_options(p)] ELSE EmptyDict

\* UpdateArgs with the encryption-at-rest options of the create call.
UpdateArgsWithEncryption(p, doc) ==
    SetKeys([DomainName |-> p.name,
             EncryptionAtRestOptions |-> encryption_at_rest_options(p),
             ElasticsearchClusterConfig |-> cluster_config(p),
             EBSOptions |-> ebs_options(p),
             SnapshotOptions |-> snapshot_options(p),
             AccessPolicies |-> doc,
             CognitoOptions |-> cognito_options(p)],
            VpcArgs(p))

\* Lines 391-401.
UpdateArgs(p, doc) ==
    SetKeys([DomainName |-> p.name,
             ElasticsearchClusterConfig |-> cluster_config(p),
             EBSOptions |-> ebs_options(p),
             SnapshotOptions |-> snapshot_options(p),
             AccessPolicies |-> doc,
             CognitoOptions |-> cognito_options(p)],
            VpcArgs(p))

\* Lines 409-422.
CreateArgs(p, doc) ==
    SetKeys([DomainName |-> p.name,
             EngineVersion |-> engine_version(p),
             EncryptionAtRestOptions |-> encryption_at_rest_options(p),
             ElasticsearchClusterConfig |-> cluster_config(p),
             EBSOptions |-> ebs_options(p),
             SnapshotOptions |-> snapshot_options(p),
             AccessPolicies |-> doc,
             CognitoOptions |-> cognito_options(p)],
            VpcArgs(p))

\* ----------------------------------------------------------- comparison
\* Some field the desired block sets is missing from the current block or
\* has another value there.
DesiredKeysDiffer(current, desired) ==
    \E k \in DOMAIN desired : k \notin DOMAIN current \/ current[k] # desired[k]

\* Compare with the option blocks compared on the desired keys only.
CompareDesiredKeysOnly(st, p, policy) ==
    LET vpc == vpc_options(p)
        c1 == \/ DesiredKeysDiffer(st.ElasticsearchClusterConfig, cluster_config(p))
              \/ DesiredKeysDiffer(st.EBSOptions, ebs_options(p))
              \/ DesiredKeysDiffer(st.CognitoOptions, cognito_options(p))
        c4(c3) == \/ c3
                  \/ DesiredKeysDiffer(st.SnapshotOptions, snapshot_options(p))
                  \/ PolicyDiffers(st, policy)
    IN  IF ~HasKey(st, "VPCOptions")
        THEN [raised |-> FALSE, changed |-> c4(c1)]
        ELSE IF ~HasKey(vpc, "SubnetIds")
        THEN [raised |-> TRUE, changed |-> c1]
        ELSE LET c2 == c1 \/ st.VPCOptions.SubnetIds # vpc.SubnetIds
             IN  IF ~HasKey(vpc, "SecurityGroupIds")
                 THEN [raised |-> TRUE, changed |-> c2]
                 ELSE [raised |-> FALSE,
                       changed |-> c4(c2 \/ st.VPCOptions.SecurityGroupIds
                                            # vpc.SecurityGroupIds)]

\* Lines 368-388 in order.  raised: a KeyError left the try block at line
\* 378 or 380; changed: the flag when the block was left.
Compare(st, p, policy) ==
    LET vpc == vpc_options(p)
        c1 == \/ st.ElasticsearchClusterConfig # cluster_config(p)
              \/ st.EBSOptions # ebs_options(p)
              \/ st.CognitoOptions # cognito_options(p)
        c4(c3) == \/ c3
                  \/ st.SnapshotOptions # snapshot_options(p)
                  \/ PolicyDiffers(st, policy)
    IN  IF ~HasKey(st, "VPCOptions")
        THEN [raised |-> FALSE, changed |-> c4(c1)]
        ELSE IF ~HasKey(vpc, "SubnetIds")
        THEN [raised |-> TRUE, changed |-> c1]
        ELSE LET c2 == c1 \/ st.VPCOptions.SubnetIds # vpc.SubnetIds
             IN  IF ~HasKey(vpc, "SecurityGroupIds")
                 THEN [raised |-> TRUE, changed |-> c2]
                 ELSE [raised |-> FALSE,
                       changed |-> c4(c2 \/ st.VPCOptions.SecurityGroupIds
                                            # vpc.SecurityGroupIds)]

\* ------------------------------------------------------------ parameters
DomainName == "my-cluster"

\* Parameters every playbook of the model gives alike (EXAMPLES, lines
\* 192-220) and the defaults of the argument spec (lines 246-258).
CommonParams ==
    [name |-> DomainName,
     instance_type |-> "m3.medium.elasticsearch",
     volume_type |-> "io1",
     engine_type |-> "ElasticSearch",
     elasticsearch_version |-> "2.3",
     encryption_at_rest_kms_key_id |-> "kms-key-1"]

\* Two topologies: nothing optional, and every option of required_if
\* (lines 266-272) switched on together with what it requires.
Topology(kind) ==
    IF kind = "minimal"
    THEN [dedicated_master |-> FALSE, zone_awareness |-> FALSE,
          warm_enabled |-> FALSE, cold_storage_enabled |-> FALSE, ebs |-> FALSE]
    ELSE [dedicated_master |-> TRUE,
          dedicated_master_instance_type |-> "t2.micro.elasticsearch",
          dedicated_master_instance_count |-> 2,
          zone_awareness |-> TRUE, availability_zone_count |-> 2,
          warm_enabled |-> TRUE, warm_type |-> "ultrawarm1.medium.search",
          warm_count |-> 1, cold_storage_enabled |-> TRUE,
          ebs |-> TRUE, iops |-> 1000]

Cognito(enabled) ==
    IF enabled
    THEN [cognito_enabled |-> TRUE, cognito_user_pool_id |-> "pool-1",
          cognito_identity_pool_id |-> "identity-1", cognito_role_arn |-> "role-1"]
    ELSE [cognito_enabled |-> FALSE]

Statements ==
    {[Effect |-> "Allow", Action |-> "es:*"],
     [Effect |-> "Allow", Action |-> "es:*",
      Resource |-> ResourceOf(ArnOf(DomainName))],
     [Effect |-> "Allow", Action |-> "es:*",
      Resource |-> <<ArnOf(DomainName), "/logs">>]}

\* Policy documents with a Statement list, as the service accepts them and
\* as line 362 subscripts them.
Policies ==
    {[Version |-> "2012-10-17", Statement |-> s] :
        s \in UNION {[1..n -> Statements] : n \in 1..MaxStatements}}

InstanceCounts == 2..MaxInstanceCount
VolumeSizes == {10, 20}
SubnetLists == {<<>>, <<"subnet-e537d64a">>, <<"subnet-e537d64b">>}
SecurityGroupLists == {<<>>, <<"sg-dd2f13cb">>}
SnapshotHours == {0, 13}

\* What a playbook chooses.
Choices ==
    [topology : {"minimal", "full"},
     instance_count : InstanceCounts,
     volume_size : VolumeSizes,
     cognito_enabled : BOOLEAN,
     vpc_subnets : SubnetLists,
     vpc_security_groups : SecurityGroupLists,
     snapshot_hour : SnapshotHours,
     encryption_at_rest_enabled : BOOLEAN,
     access_policies : Policies]

\* module.params for a choice.
ParamsOf(c) ==
    SetKeys(SetKeys(SetKeys(CommonParams, Topology(c.topology)),
                    Cognito(c.cognito_enabled)),
            [instance_count |-> c.instance_count,
             volume_size |-> c.volume_size,
             vpc_subnets |-> c.vpc_subnets,
             vpc_security_groups |-> c.vpc_security_groups,
             snapshot_hour |-> c.snapshot_hour,
             encryption_at_rest_enabled |-> c.encryption_at_rest_enabled,
             access_policies |-> c.access_policies])

\* ------------------------------------------------- domains that exist
\* The choices that differ from c in at most one place.
Near(c) ==
    {c} \cup {[c EXCEPT !.topology = v] : v \in {"minimal", "full"}}
        \cup {[c EXCEPT !.instance_count = v] : v \in InstanceCounts}
        \cup {[c EXCEPT !.volume_size = v] : v \in VolumeSizes}
        \cup {[c EXCEPT !.cognito_enabled = v] : v \in BOOLEAN}
        \cup {[c EXCEPT !.vpc_subnets = v] : v \in SubnetLists}
        \cup {[c EXCEPT !.vpc_security_groups = v] : v \in SecurityGroupLists}
        \cup {[c EXCEPT !.snapshot_hour = v] : v \in SnapshotHours}
        \cup {[c EXCEPT !.encryption_at_rest_enabled = v] : v \in BOOLEAN}
        \cup {[c EXCEPT !.access_policies = v] : v \in Policies}

\* The domain as the service holds it when it was created, by whatever
\* client, with the configuration of parameters q: in a VPC exactly when
\* subnets were given.
DomainOf(q) ==
    LET kw == SetKeys([DomainName |-> q.name,
                       EngineVersion |-> engine_version(q),
                       EncryptionAtRestOptions |-> encryption_at_rest_options(q),
                       ElasticsearchClusterConfig |-> cluster_config(q),
                       EBSOptions |-> ebs_options(q),
                       SnapshotOptions |-> snapshot_options(q),
                       AccessPolicies |-> json_dumps(q.access_policies),
                       CognitoOptions |-> cognito_options(q)],
                      IF q.vpc_subnets # <<>>
                      THEN [VPCOptions |-> vpc_options(q)] ELSE EmptyDict)
    IN  CreatedStatus(kw)

\* An option the service reports and main() never sets.
ProviderOnlyOption == [ProviderOnlyOption |-> TRUE]

OptionBlocks ==
    {"ElasticsearchClusterConfig", "EBSOptions", "CognitoOptions", "SnapshotOptions"}

WithProviderOption(st, block) ==
    [st EXCEPT ![block] = SetKeys(@, ProviderOnlyOption)]

ExistingDomains(c) ==
    {DomainOf(ParamsOf(q)) : q \in Near(c)}
        \cup {WithProviderOption(DomainOf(ParamsOf(c)), b) : b \in OptionBlocks}

\* --------------------------------------------------------------- results
Running == [kind |-> "none"]

\* module.exit_json(changed=changed, response=response), line 431.
exit_json(ch, resp) == [kind |-> "exit", changed |-> ch, response |-> resp]

\* module.fail_json(msg='Error: %s %s' % (code, message)), line 427.
fail_json(err) ==
    [kind |-> "fail", msg |-> <<"Error: ", err.Code, " ", err.Message>>]

\* An exception nothing catches: the interpreter ends with a traceback.
Traceback(exc) == [kind |-> "crash", exception |-> exc]

\* One provider call as the log keeps it: what was called, with what, the
\* error code it raised ("none" when it returned) and what it returned.
Call(op, args, err, resp) ==
    [op |-> op, args |-> args, error |-> err.Code, message |-> err.Message,
     response |-> resp]

DescribeArgs(p) == [DomainName |-> p.name]

\* ----------------------------------------------------------------- state
\* Lines 349-352: the locals of main() before the first provider call.
\* access_policies is a dict of strings and lists (type='dict', line 250),
\* which json.dumps always serialises: the handler of lines 353-354 is not
\* entered.
StartOfMain(p) ==
    /\ pc = "describe"
    /\ changed = FALSE
    /\ policy_dict = p.access_policies
    /\ pdoc = json_dumps(p.access_policies)
    /\ keyword_args = EmptyDict
    /\ response = EmptyDict
    /\ calls = <<>>
    /\ result = Running

Init ==
    /\ \E c \in Choices :
         /\ params = ParamsOf(c)
         /\ \/ exists = FALSE /\ status = EmptyDict
            \/ exists = TRUE /\ status \in ExistingDomains(c)
    /\ inv = 1
    /\ prev = Running
    /\ StartOfMain(params)

\* ExceptClientError without the test of line 408: every code creates.
ExceptClientErrorAnyCode(err, doc) ==
    /\ changed' = TRUE
    /\ IF VpcTestRaises(vpc_options(params))
       THEN /\ result' = Traceback("KeyError")
            /\ pc' = "done"
            /\ keyword_args' = keyword_args
       ELSE /\ keyword_args' = CreateArgs(params, doc)
            /\ pc' = "create"
            /\ result' = result

\* ExceptClientError without line 406: changed stays as it was.
ExceptClientErrorKeepsChanged(err, doc) ==
    /\ changed' = changed
    /\ IF err.Code = "ResourceNotFoundException"
       THEN IF VpcTestRaises(vpc_options(params))
            THEN /\ result' = Traceback("KeyError")
                 /\ pc' = "done"
                 /\ keyword_args' = keyword_args
            ELSE /\ keyword_args' = CreateArgs(params, doc)
                 /\ pc' = "create"
                 /\ result' = result
       ELSE /\ result' = fail_json(err)
            /\ pc' = "done"
            /\ keyword_args' = keyword_args

\* Lines 405-427: the handler of botocore.exceptions.ClientError, entered
\* with the policy text doc.
ExceptClientError(err, doc) ==
    /\ changed' = TRUE
    /\ IF err.Code = "ResourceNotFoundException"
       THEN IF VpcTestRaises(vpc_options(params))
            THEN /\ result' = Traceback("KeyError")
                 /\ pc' = "done"
                 /\ keyword_args' = keyword_args
            ELSE /\ keyword_args' = CreateArgs(params, doc)
                 /\ pc' = "create"
                 /\ result' = result
       ELSE /\ result' = fail_json(err)
            /\ pc' = "done"
            /\ keyword_args' = keyword_args

\* Lines 356-401 when describe_elasticsearch_domain returns.
DescribeInitialOk ==
    /\ pc = "describe"
    /\ exists
    /\ response' = [op |-> "describe", call |-> Len(calls) + 1, DomainStatus |-> status]
    /\ calls' = Append(calls, Call("describe", DescribeArgs(params), NoError, response'))
    /\ policy_dict' = PopulateResource(policy_dict, status.ARN)
    /\ pdoc' = json_dumps(policy_dict')
    /\ LET cmp == Compare(status, params, policy_dict')
       IN  /\ changed' = cmp.changed
           /\ IF cmp.raised
              THEN /\ result' = Traceback("KeyError")
                   /\ pc' = "done"
                   /\ keyword_args' = keyword_args
              ELSE IF ~cmp.changed
              THEN /\ pc' = "describe_final"
                   /\ UNCHANGED <<result, keyword_args>>
              ELSE IF VpcTestRaises(vpc_options(params))
              THEN /\ result' = Traceback("KeyError")
                   /\ pc' = "done"
                   /\ keyword_args' = keyword_args
              ELSE /\ keyword_args' = UpdateArgs(params, pdoc')
                   /\ pc' = "update"
                   /\ result' = result
    /\ UNCHANGED <<params, exists, status, inv, prev>>

\* Line 357 raising ClientError: the domain is not there, or the service
\* refuses the call.
DescribeInitialError ==
    /\ pc = "describe"
    /\ \E err \in (IF exists THEN {} ELSE {NotFound}) \cup OtherErrors :
         /\ calls' = Append(calls, Call("describe", DescribeArgs(params), err, EmptyDict))
         /\ ExceptClientError(err, pdoc)
    /\ UNCHANGED <<params, exists, status, inv, prev, policy_dict, pdoc, response>>

\* Line 403 returning.
UpdateOk ==
    /\ pc = "update"
    /\ exists
    /\ calls' = Append(calls, Call("update", keyword_args, NoError,
                                     [op |-> "update", call |-> Len(calls) + 1]))
    /\ status' = UpdatedStatus(status, keyword_args)
    /\ response' = [op |-> "update", call |-> Len(calls) + 1]
    /\ pc' = "describe_final"
    /\ UNCHANGED <<params, exists, inv, prev, changed, policy_dict, pdoc,
                   keyword_args, result>>

\* Line 403 raising ClientError; ResourceNotFoundException when the domain
\* was deleted after line 357 read it.
UpdateError ==
    /\ pc = "update"
    /\ \E err \in {NotFound} \cup OtherErrors :
         /\ calls' = Append(calls, Call("update", keyword_args, err, EmptyDict))
         /\ exists' = (exists /\ err # NotFound)
         /\ status' = IF exists' THEN status ELSE EmptyDict
         /\ ExceptClientError(err, pdoc)
    /\ UNCHANGED <<params, inv, prev, policy_dict, pdoc, response>>

\* Line 424 returning.
CreateOk ==
    /\ pc = "create"
    /\ ~exists
    /\ calls' = Append(calls, Call("create", keyword_args, NoError,
                                     [op |-> "create", call |-> Len(calls) + 1]))
    /\ exists' = TRUE
    /\ status' = CreatedStatus(keyword_args)
    /\ response' = [op |-> "create", call |-> Len(calls) + 1]
    /\ pc' = "describe_final"
    /\ UNCHANGED <<params, inv, prev, changed, policy_dict, pdoc,
                   keyword_args, result>>

\* Line 424 raising ClientError inside the handler: nothing catches it.
CreateError ==
    /\ pc = "create"
    /\ \E err \in OtherErrors :
         calls' = Append(calls, Call("create", keyword_args, err, EmptyDict))
    /\ result' = Traceback("ClientError")
    /\ pc' = "done"
    /\ UNCHANGED <<params, exists, status, inv, prev, changed, policy_dict,
                   pdoc, keyword_args, response>>

\* DescribeFinalOk without line 430: exit_json with the response at hand.
DescribeFinalOkNoRead ==
    /\ pc = "describe_final"
    /\ exists
    /\ result' = exit_json(changed, response)
    /\ pc' = "done"
    /\ UNCHANGED <<params, exists, status, inv, prev, changed, policy_dict,
                   pdoc, keyword_args, response, calls>>

\* Lines 430-431 when the second describe returns.
DescribeFinalOk ==
    /\ pc = "describe_final"
    /\ exists
    /\ response' = [op |-> "describe", call |-> Len(calls) + 1, DomainStatus |-> status]
    /\ calls' = Append(calls, Call("describe", DescribeArgs(params), NoError, response'))
    /\ result' = exit_json(changed, response')
    /\ pc' = "done"
    /\ UNCHANGED <<params, exists, status, inv, prev, changed, policy_dict,
                   pdoc, keyword_args>>

\* Line 430 raising ClientError outside any try block.
DescribeFinalError ==
    /\ pc = "describe_final"
    /\ \E err \in OtherErrors :
         calls' = Append(calls, Call("describe", DescribeArgs(params), err, EmptyDict))
    /\ result' = Traceback("ClientError")
    /\ pc' = "done"
    /\ UNCHANGED <<params, exists, status, inv, prev, changed, policy_dict,
                   pdoc, keyword_args, response>>

\* A write call of the log that the service carried out.
Wrote(log) ==
    \E i \in DOMAIN log : log[i].op \in {"create", "update"} /\ log[i].error = "none"

\* The playbook is run again with the same parameters after a run that
\* ended in exit_json: main() starts anew in a new process.
RunAgain ==
    /\ pc = "done"
    /\ result.kind = "exit"
    /\ inv < MaxInvocations
    /\ inv' = inv + 1
    /\ prev' = [kind |-> "exit", changed |-> result.changed, wrote |-> Wrote(calls)]
    /\ pc' = "describe"
    /\ changed' = FALSE
    /\ policy_dict' = params.access_policies
    /\ pdoc' = json_dumps(params.access_policies)
    /\ keyword_args' = EmptyDict
    /\ response' = EmptyDict
    /\ calls' = <<>>
    /\ result' = Running
    /\ UNCHANGED <<params, exists, status>>

Next ==
    \/ DescribeInitialOk
    \/ DescribeInitialError
    \/ UpdateOk
    \/ UpdateError
    \/ CreateOk
    \/ CreateError
    \/ DescribeFinalOk
    \/ DescribeFinalError
    \/ RunAgain

Spec == Init /\ [][Next]_vars

\* ================================================================ claims
\* What the claims speak of, read off the log of provider calls.
Writes == {i \in DOMAIN calls : calls[i].op \in {"create", "update"}}
Creates == {i \in DOMAIN calls : calls[i].op = "create"}
Updates == {i \in DOMAIN calls : calls[i].op = "update"}

FirstReadOk == calls # <<>> /\ calls[1].error = "none"
FirstReadNotFound == calls # <<>> /\ calls[1].error = "ResourceNotFoundException"
FirstRead == calls[1].response.DomainStatus

\* No provider call after the first one was refused by the service.
NoLaterFailure == \A i \in DOMAIN calls : i > 1 => calls[i].error = "none"

DesiredBlock(b) ==
    CASE b = "ElasticsearchClusterConfig" -> cluster_config(params)
      [] b = "EBSOptions" -> ebs_options(params)
      [] b = "CognitoOptions" -> cognito_options(params)
      [] b = "SnapshotOptions" -> snapshot_options(params)

\* The desired statement as the service holds it.
WithResource(s, arn) ==
    IF "Resource" \in DOMAIN s
    THEN s
    ELSE [Effect |-> s.Effect, Action |-> s.Action, Resource |-> <<arn, "/*">>]

PolicyMatches(st) ==
    LET current == json_loads(st.AccessPolicies)
        desired == params.access_policies
    IN  /\ current.Version = desired.Version
        /\ Len(current.Statement) = Len(desired.Statement)
        /\ \A i \in DOMAIN desired.Statement :
              current.Statement[i] = WithResource(desired.Statement[i], st.ARN)

\* The domain has no network options, or they are the declared ones.
NetworkMatches(st) ==
    "VPCOptions" \in DOMAIN st =>
        /\ params.vpc_subnets # <<>>
        /\ params.vpc_security_groups # <<>>
        /\ st.VPCOptions.SubnetIds = params.vpc_subnets
        /\ st.VPCOptions.SecurityGroupIds = params.vpc_security_groups

NetworkDiffers(st) ==
    /\ "VPCOptions" \in DOMAIN st
    /\ \/ st.VPCOptions.SubnetIds # params.vpc_subnets
       \/ st.VPCOptions.SecurityGroupIds # params.vpc_security_groups

BlocksThatDiffer(st) == {b \in OptionBlocks : st[b] # DesiredBlock(b)}

Matches(st) ==
    /\ BlocksThatDiffer(st) = {}
    /\ NetworkMatches(st)
    /\ PolicyMatches(st)

\* The number of compared fields in which the domain differs.
DifferenceCount(st) ==
    Cardinality(BlocksThatDiffer(st))
      + (IF "VPCOptions" \in DOMAIN st
            /\ st.VPCOptions.SubnetIds # params.vpc_subnets THEN 1 ELSE 0)
      + (IF "VPCOptions" \in DOMAIN st
            /\ st.VPCOptions.SecurityGroupIds # params.vpc_security_groups
         THEN 1 ELSE 0)
      + (IF PolicyMatches(st) THEN 0 ELSE 1)

FullDesired(args) ==
    /\ args.DomainName = params.name
    /\ args.ElasticsearchClusterConfig = cluster_config(params)
    /\ args.EBSOptions = ebs_options(params)
    /\ args.SnapshotOptions = snapshot_options(params)
    /\ args.CognitoOptions = cognito_options(params)
    /\ \A i \in DOMAIN params.access_policies.Statement :
          \A k \in DOMAIN params.access_policies.Statement[i] :
             json_loads(args.AccessPolicies).Statement[i][k]
                = params.access_policies.Statement[i][k]
    /\ params.vpc_subnets # <<>> =>
          /\ "VPCOptions" \in DOMAIN args
          /\ args.VPCOptions.SubnetIds = params.vpc_subnets
    /\ params.vpc_security_groups # <<>> =>
          /\ "VPCOptions" \in DOMAIN args
          /\ args.VPCOptions.SecurityGroupIds = params.vpc_security_groups

\* C1: when the first read fails with ResourceNotFoundException, whatever
\* the parameters (network options declared or not), the run issues exactly
\* one create call with the full desired configuration, no update call, and
\* ends in exit_json with changed = true.
C1_CreateWhenNotFound ==
    (pc = "done" /\ FirstReadNotFound /\ NoLaterFailure) =>
        /\ result.kind = "exit"
        /\ result.changed
        /\ Updates = {}
        /\ Cardinality(Creates) = 1
        /\ \A i \in Creates :
              /\ FullDesired(calls[i].args)
              /\ calls[i].args.EngineVersion = engine_version(params)
              /\ calls[i].args.EncryptionAtRestOptions
                    = encryption_at_rest_options(params)

\* C2: for a domain whose compared fields all equal the desired
\* configuration, the run issues no create and no update call and ends in
\* exit_json with changed = false (the second read not being refused).
C2_NoOpWhenEqual ==
    (FirstReadOk /\ Matches(FirstRead)) =>
        /\ Writes = {}
        /\ ~changed
        /\ pc \in {"describe_final", "done"}
        /\ (pc = "done" /\ NoLaterFailure) =>
              (result.kind = "exit" /\ ~result.changed)

C2_Witness ==
    /\ pc = "done"
    /\ FirstReadOk
    /\ Matches(FirstRead)
    /\ "VPCOptions" \in DOMAIN FirstRead
    /\ result.kind = "exit"
    /\ ~result.changed

\* C3: for a domain that differs in exactly one compared field, whatever
\* the parameters (network options declared or not), the run reports
\* changed = true and issues exactly one update call, with the full desired
\* configuration.
C3_UpdateWhenOneFieldDiffers ==
    (pc = "done" /\ FirstReadOk /\ DifferenceCount(FirstRead) = 1 /\ NoLaterFailure) =>
        /\ result.kind = "exit"
        /\ result.changed
        /\ Creates = {}
        /\ Cardinality(Updates) = 1
        /\ \A i \in Updates : FullDesired(calls[i].args)

\* C4: once the first read has returned, every statement of the desired
\* policy that had no Resource has Resource = '<ARN>/*', the statements that
\* had one are as they were, and a current policy equal to the desired one
\* with the Resource so filled in adds nothing to changed: changed is true
\* exactly when another compared field differs.
C4_ResourcePopulatedBeforeCompare ==
    (FirstReadOk /\ Len(calls) = 1) =>
        /\ Len(policy_dict.Statement) = Len(params.access_policies.Statement)
        /\ \A i \in DOMAIN params.access_policies.Statement :
              policy_dict.Statement[i]
                 = WithResource(params.access_policies.Statement[i], FirstRead.ARN)
        /\ (pc \in {"update", "describe_final"} /\ PolicyMatches(FirstRead)) =>
              (changed <=> (BlocksThatDiffer(FirstRead) # {} \/ NetworkDiffers(FirstRead)))

C4_Witness ==
    /\ FirstReadOk
    /\ Len(calls) = 1
    /\ pc = "describe_final"
    /\ ~changed
    /\ \E i \in DOMAIN params.access_policies.Statement :
          "Resource" \notin DOMAIN params.access_policies.Statement[i]

\* The first read (call 1) or an update call raised an error code other
\* than ResourceNotFoundException.
ReconcileCallRefused(i) ==
    /\ calls[i].error \notin {"none", "ResourceNotFoundException"}
    /\ (i = 1 \/ calls[i].op = "update")

FatalWith(i) ==
    /\ pc = "done"
    /\ result.kind = "fail"
    /\ \E j \in DOMAIN result.msg : result.msg[j] = calls[i].error
    /\ \E j \in DOMAIN result.msg : result.msg[j] = calls[i].message

\* C5 as stated: when the first read or the update call is refused with
\* another code than ResourceNotFoundException, the run ends in fail_json
\* with the code and the message, and no create or update call has been
\* issued in the run.
C5_NoWriteCallAtAll ==
    \A i \in DOMAIN calls :
        ReconcileCallRefused(i) => (FatalWith(i) /\ Writes = {})

\* C5: when the first read or the update call is refused with another code
\* than ResourceNotFoundException, the run ends in fail_json with the code
\* and the message, the refused call is the last provider call, no create
\* call is issued, and the only write call there can be is the refused
\* update itself.
C5_FatalOnOtherError ==
    \A i \in DOMAIN calls :
        ReconcileCallRefused(i) =>
            /\ FatalWith(i)
            /\ i = Len(calls)
            /\ Creates = {}
            /\ Writes \subseteq {i}

C5_Witness ==
    /\ pc = "done"
    /\ result.kind = "fail"
    /\ calls[Len(calls)].op = "update"
    /\ calls[Len(calls)].error = "ValidationException"

\* C6: a run after a run that created or updated the domain, with the same
\* parameters and no provider call refused, ends in exit_json with
\* changed = false and issues no create and no update call.
C6_Idempotent ==
    (/\ inv > 1
     /\ prev.kind = "exit"
     /\ prev.wrote
     /\ pc = "done"
     /\ \A i \in DOMAIN calls : calls[i].error = "none") =>
        /\ result.kind = "exit"
        /\ ~result.changed
        /\ Writes = {}

NoOp ==
    /\ FirstReadOk
    /\ DifferenceCount(FirstRead) = 0
    /\ Writes = {}
    /\ ~result.changed

\* C7 as stated: a run that ends in exit_json is a no-op, or exactly one
\* write call was issued in it with changed = true; changed is true exactly
\* when exactly one write call was issued.
C7_ExactlyOneWriteIssued ==
    result.kind = "exit" =>
        /\ NoOp \/ (Cardinality(Writes) = 1 /\ result.changed)
        /\ result.changed <=> Cardinality(Writes) = 1

\* C7: a run that ends in exit_json is a no-op, or exactly one write call
\* was carried out with changed = true; two write calls are issued only as
\* an update refused with ResourceNotFoundException and then a create;
\* changed is true exactly when a write call was issued.
C7_TwoTerminalStates ==
    result.kind = "exit" =>
        /\ \/ NoOp
           \/ /\ Cardinality({i \in Writes : calls[i].error = "none"}) = 1
              /\ result.changed
              /\ Cardinality(Writes) > 1 =>
                    /\ Len(calls) = 4
                    /\ calls[2].op = "update"
                    /\ calls[2].error = "ResourceNotFoundException"
                    /\ calls[3].op = "create"
        /\ result.changed <=> Writes # {}

C7_Witness ==
    /\ result.kind = "exit"
    /\ result.changed
    /\ Updates # {}
    /\ Creates # {}

\* C8: in a run that ends in exit_json the last provider call is a read of
\* the domain, later than every write call, and the response in the result
\* is the response of that read: not the one of the first read nor of a
\* create or update call.
C8_ResultIsFinalRead ==
    result.kind = "exit" =>
        /\ Len(calls) >= 2
        /\ calls[Len(calls)].op = "describe"
        /\ calls[Len(calls)].error = "none"
        /\ \A i \in Writes : i < Len(calls)
        /\ result.response = calls[Len(calls)].response
        /\ result.response.call = Len(calls)
        /\ result.response.DomainStatus = status

C8_Witness ==
    /\ result.kind = "exit"
    /\ Updates # {}
    /\ Creates = {}
    /\ calls[1].response.DomainStatus # result.response.DomainStatus

\* C9: every create call carries the encryption-at-rest options (Enabled,
\* and KmsKeyId exactly when enabled), no update call carries them or an
\* engine version, and a domain that differs from the desired configuration
\* only in its encryption-at-rest options leaves changed false and gets no
\* write call.
C9_EncryptionOnlyAtCreate ==
    /\ \A i \in Creates :
          /\ "EncryptionAtRestOptions" \in DOMAIN calls[i].args
          /\ calls[i].args.EncryptionAtRestOptions.Enabled
                = params.encryption_at_rest_enabled
          /\ "KmsKeyId" \in DOMAIN calls[i].args.EncryptionAtRestOptions
                <=> params.encryption_at_rest_enabled
          /\ params.encryption_at_rest_enabled =>
                calls[i].args.EncryptionAtRestOptions.KmsKeyId
                   = params.encryption_at_rest_kms_key_id
    /\ \A i \in Updates :
          /\ "EncryptionAtRestOptions" \notin DOMAIN calls[i].args
          /\ "EngineVersion" \notin DOMAIN calls[i].args
    /\ (/\ FirstReadOk
        /\ Matches(FirstRead)
        /\ FirstRead.EncryptionAtRestOptions # encryption_at_rest_options(params)) =>
          (~changed /\ Writes = {})

C9_Witness ==
    /\ result.kind = "exit"
    /\ Creates # {}
    /\ params.encryption_at_rest_enabled

\* The domain has every field the desired configuration sets, with the
\* same value, and in some option block a field more.
OnlyAdditionalFields(st) ==
    /\ \A b \in OptionBlocks :
          /\ DOMAIN DesiredBlock(b) \subseteq DOMAIN st[b]
          /\ \A k \in DOMAIN DesiredBlock(b) : st[b][k] = DesiredBlock(b)[k]
    /\ \E b \in OptionBlocks : DOMAIN st[b] # DOMAIN DesiredBlock(b)
    /\ NetworkMatches(st)
    /\ PolicyMatches(st)

\* C10 as stated: a field more in an option block of the domain, all else
\* equal, is no difference: no update call, and exit_json with
\* changed = false.
C10_AdditionalFieldIgnored ==
    (FirstReadOk /\ OnlyAdditionalFields(FirstRead)) =>
        /\ Updates = {}
        /\ result.kind = "exit" => ~result.changed

\* C10: a field more in an option block of the domain makes the block
\* unequal to the desired one: changed is set, the run goes on to the update
\* call or ends in the KeyError of line 400, it never takes the no-op path,
\* and when it ends in exit_json it reports changed = true after an update
\* call.
C10_AdditionalFieldIsADifference ==
    (FirstReadOk /\ OnlyAdditionalFields(FirstRead)) =>
        /\ changed
        /\ Len(calls) = 1 => (pc = "update" \/ result = Traceback("KeyError"))
        /\ pc = "describe_final" => Writes # {}
        /\ result.kind = "exit" => (result.changed /\ Updates # {})

C10_Witness ==
    /\ result.kind = "exit"
    /\ FirstReadOk
    /\ OnlyAdditionalFields(FirstRead)
    /\ result.changed
    /\ Cardinality(Updates) = 1

====
